---- MODULE Spec2Model ----
(***************************************************************************)
(* Line classifier of src/Question_Answer_segmentation.py                  *)
(* (separate_qa_with_regex): the OCR text of each image is split into      *)
(* lines, every line is stripped, cleaned and matched against the rules in *)
(* priority order, and finished items are appended to results.             *)
(* Strings are TLA+ strings; the regular expressions are computed          *)
(* character by character as Python's re module computes them on the       *)
(* ASCII alphabet.                                                         *)
(***************************************************************************)
EXTENDS Integers, Sequences, FiniteSets, TLC

\* Total number of lines consumed over all images.
MaxLines == 3
\* Number of images in image_list.
MaxImages == 3

VARIABLES
  results,                  \* {"Questions": [], "Answers": []}
  current_mode,             \* "None", "Questions" or "Answers"
  current_text,             \* the buffer under construction
  previous_line_was_empty,  \* the blank-line flag
  pc,                       \* "images": at the for over image_list, "lines": in the for over lines, "done": returned
  texts,                    \* the lines consumed so far, one sequence per image started
  carried,                  \* history: the Questions buffer that was open when the previous image ended
  image_start               \* history: Mode, the blank flag and results when the current image began

vars == <<results, current_mode, current_text, previous_line_was_empty, pc, texts, carried, image_start>>

-----------------------------------------------------------------------------
(* Characters and character classes (Python str methods and re classes).   *)

Char(s, i) == IF i \in 1..Len(s) THEN SubSeq(s, i, i) ELSE ""

UpperCase == "ABCDEFGHIJKLMNOPQRSTUVWXYZ"
LowerCase == "abcdefghijklmnopqrstuvwxyz"
Digits == "0123456789"

InStr(c, alphabet) == \E i \in 1..Len(alphabet) : SubSeq(alphabet, i, i) = c

\* re.IGNORECASE: compare letters by their lower-case form.
lower(c) ==
  IF InStr(c, UpperCase)
  THEN LET i == CHOOSE k \in 1..Len(UpperCase) : SubSeq(UpperCase, k, k) = c
       IN SubSeq(LowerCase, i, i)
  ELSE c

\* [a-z] under re.IGNORECASE
IsLetter(c) == InStr(lower(c), LowerCase)
\* \w
IsWord(c) == IsLetter(c) \/ InStr(c, Digits) \/ c = "_"
\* \s, and the characters str.strip() removes
IsSpace(c) == c \in {" ", "\t", "\r", "\f"}
\* the punctuation kept by the cleaning pattern: ? . , : ; ( ) -
IsKeptPunct(c) == c \in {"?", ".", ",", ":", ";", "(", ")", "-"}

RECURSIVE lstrip(_)
lstrip(s) == IF s # "" /\ IsSpace(Char(s, 1)) THEN lstrip(SubSeq(s, 2, Len(s))) ELSE s

RECURSIVE rstrip(_)
rstrip(s) == IF s # "" /\ IsSpace(Char(s, Len(s))) THEN rstrip(SubSeq(s, 1, Len(s) - 1)) ELSE s

\* str.strip()
strip(s) == rstrip(lstrip(s))

\* The characters lo..hi of s, each replaced by what the substitution leaves
\* of it, concatenated (by halves, so that long buffers stay shallow).
RECURSIVE cleanRange(_, _, _)
cleanRange(s, lo, hi) ==
  IF lo > hi THEN ""
  ELSE IF lo = hi
       THEN LET c == Char(s, lo)
            IN IF IsWord(c) \/ IsSpace(c) \/ IsKeptPunct(c) THEN c ELSE ""
       ELSE LET mid == (lo + hi) \div 2
            IN cleanRange(s, lo, mid) \o cleanRange(s, mid + 1, hi)

\* re.sub(r'[^\w\s\?\.\,\:\;\(\)\-]', '', line)
clean(s) == cleanRange(s, 1, Len(s))

\* A run of whitespace becomes one space: its first character becomes " ",
\* the others disappear.
RECURSIVE collapseRange(_, _, _)
collapseRange(s, lo, hi) ==
  IF lo > hi THEN ""
  ELSE IF lo = hi
       THEN LET c == Char(s, lo)
            IN IF ~IsSpace(c) THEN c
               ELSE IF lo > 1 /\ IsSpace(Char(s, lo - 1)) THEN "" ELSE " "
       ELSE LET mid == (lo + hi) \div 2
            IN collapseRange(s, lo, mid) \o collapseRange(s, mid + 1, hi)

\* re.sub(r'\s+', ' ', text)
collapse(s) == collapseRange(s, 1, Len(s))

\* re.sub(r'\s+', ' ', current_text).strip()
normalize(s) == strip(collapse(s))

\* line.endswith('?')
endswith(s, c) == s # "" /\ Char(s, Len(s)) = c

\* The index of the first character at or after i that is not whitespace: \s*
RECURSIVE SkipSpace(_, _)
SkipSpace(s, i) == IF i <= Len(s) /\ IsSpace(Char(s, i)) THEN SkipSpace(s, i + 1) ELSE i

-----------------------------------------------------------------------------
(* The three patterns, matched at the start of the line (re.match, and     *)
(* re.sub with a pattern anchored by ^).  q_markers and a_markers give the *)
(* length of the matched prefix, or -1 when the pattern does not match.    *)

MarkerPunct == {".", ")", ":", "-"}

\* q_markers = r'^[QqBb][\.\)\:\-]\s*'
q_markers(s) ==
  IF lower(Char(s, 1)) \in {"q", "b"} /\ Char(s, 2) \in MarkerPunct
  THEN SkipSpace(s, 3) - 1
  ELSE -1

\* The lower-case form of the first n characters of s.
RECURSIVE lowerPrefix(_, _)
lowerPrefix(s, n) ==
  IF n = 0 \/ s = "" THEN "" ELSE lower(Char(s, 1)) \o lowerPrefix(SubSeq(s, 2, Len(s)), n - 1)

\* a_markers = r'^[Aa][\.\)\:\-]\s*|^[Aa]ns[\.\)\:\-]\s*|^[Aa]nswer[\.\)\:\-]\s*'
a_markers(s) ==
  IF lower(Char(s, 1)) = "a" /\ Char(s, 2) \in MarkerPunct THEN SkipSpace(s, 3) - 1
  ELSE IF lowerPrefix(s, 3) = "ans" /\ Char(s, 4) \in MarkerPunct THEN SkipSpace(s, 5) - 1
  ELSE IF lowerPrefix(s, 6) = "answer" /\ Char(s, 7) \in MarkerPunct THEN SkipSpace(s, 8) - 1
  ELSE -1

\* subdivision = r'^\s*[a-z]\s*[\.\)\:]\s*|^\s*\([a-z]\)\s*|^\s*[uw]\s*\)'
subdivision(s) ==
  LET i == SkipSpace(s, 1)
  IN \/ IsLetter(Char(s, i)) /\ Char(s, SkipSpace(s, i + 1)) \in {".", ")", ":"}
     \/ Char(s, i) = "(" /\ IsLetter(Char(s, i + 1)) /\ Char(s, i + 2) = ")"
     \/ lower(Char(s, i)) \in {"u", "w"} /\ Char(s, SkipSpace(s, i + 1)) = ")"

\* re.sub(q_markers, '', line, flags=re.IGNORECASE).strip()
sub_q_markers(s) == strip(SubSeq(s, q_markers(s) + 1, Len(s)))

\* re.sub(a_markers, '', line, flags=re.IGNORECASE).strip()
sub_a_markers(s) == strip(SubSeq(s, a_markers(s) + 1, Len(s)))

\* The line as the rules see it: stripped, cleaned, stripped again.
cleaned(l) == strip(clean(strip(l)))

-----------------------------------------------------------------------------
(* The if-cascade of the loop body: which branch consumes the raw line l.  *)

\* A plausible slip: the answer-marker test is made before the '?' test.
Branch_answer_first(l) ==
  LET s == strip(l)
      line == cleaned(l)
  IN IF s = "" THEN "empty"
     ELSE IF Len(s) < 2 THEN "short"
     ELSE IF line = "" THEN "cleaned_empty"
     ELSE IF a_markers(line) >= 0 THEN "a_marker"
     ELSE IF endswith(line, "?") THEN "question_end"
     ELSE IF q_markers(line) >= 0 THEN "q_marker"
     ELSE IF subdivision(line) THEN "subdivision"
     ELSE "other"

\* A plausible slip: the short-line test is off by one (len(line) < 1).
Branch_short_off_by_one(l) ==
  LET s == strip(l)
      line == cleaned(l)
  IN IF s = "" THEN "empty"
     ELSE IF Len(s) < 1 THEN "short"
     ELSE IF line = "" THEN "cleaned_empty"
     ELSE IF endswith(line, "?") THEN "question_end"
     ELSE IF q_markers(line) >= 0 THEN "q_marker"
     ELSE IF a_markers(line) >= 0 THEN "a_marker"
     ELSE IF subdivision(line) THEN "subdivision"
     ELSE "other"

Branch(l) ==
  LET s == strip(l)
      line == cleaned(l)
  IN IF s = "" THEN "empty"
     ELSE IF Len(s) < 2 THEN "short"
     ELSE IF line = "" THEN "cleaned_empty"
     ELSE IF endswith(line, "?") THEN "question_end"
     ELSE IF q_markers(line) >= 0 THEN "q_marker"
     ELSE IF a_markers(line) >= 0 THEN "a_marker"
     ELSE IF subdivision(line) THEN "subdivision"
     ELSE "other"

\* A plausible slip: the emptiness tests of save_current_item are missing.
save_current_item_unchecked(res, mode, text) ==
  IF mode # "None" THEN [res EXCEPT ![mode] = Append(@, normalize(text))] ELSE res

\* A plausible slip: the item replaces the list instead of being appended.
save_current_item_assign(res, mode, text) ==
  IF text # "" /\ mode # "None"
  THEN LET t == normalize(text)
       IN IF t # "" THEN [res EXCEPT ![mode] = <<t>>] ELSE res
  ELSE res

\* A plausible repair that the code does not make: an item without a mode is
\* stored as a question.
save_current_item_default_questions(res, mode, text) ==
  IF text # ""
  THEN LET t == normalize(text)
           m == IF mode = "None" THEN "Questions" ELSE mode
       IN IF t # "" THEN [res EXCEPT ![m] = Append(@, t)] ELSE res
  ELSE res

\* A plausible slip: the finished item is put at the head of its list.
save_current_item_prepend(res, mode, text) ==
  IF mode # "None" /\ text # ""
  THEN LET t == normalize(text)
       IN IF t # "" THEN [res EXCEPT ![mode] = <<t>> \o @] ELSE res
  ELSE res

\* save_current_item: the value of results after the call (the buffer is
\* emptied by the caller's current_text' = "").
save_current_item(res, mode, text) ==
  IF text # "" /\ mode # "None"
  THEN LET t == normalize(text)
       IN IF t # "" THEN [res EXCEPT ![mode] = Append(@, t)] ELSE res
  ELSE res

-----------------------------------------------------------------------------
(* The input: the lines an image's text may hold.                          *)

Lines ==
  { "", "-", "##",
    "A.) Is this correct?",
    "Q.) Define OS", "b. part", "Q.",
    "Ans: y", "a) part",
    "(c)  see *fig",
    "An operating system manages resources." }

\* Branch and cleaned of every input line, computed once.
BranchOf == [l \in Lines |-> Branch(l)]
CleanedOf == [l \in Lines |-> cleaned(l)]

NLines == LET RECURSIVE Sum(_)
              Sum(i) == IF i = 0 THEN 0 ELSE Len(texts[i]) + Sum(i - 1)
          IN Sum(Len(texts))

Init ==
  /\ results = [Questions |-> <<>>, Answers |-> <<>>]
  /\ current_mode = "None"
  /\ current_text = ""
  /\ previous_line_was_empty = FALSE
  /\ pc = "images"
  /\ texts = <<>>
  /\ carried = ""
  /\ image_start = [mode |-> "None", blank |-> FALSE, results |-> [Questions |-> <<>>, Answers |-> <<>>]]

\* for img_path in image_list: text = source_pipeline(img_path); lines = text.split('\n')
BeginImage ==
  /\ pc = "images"
  /\ Len(texts) < MaxImages
  /\ NLines < MaxLines
  /\ pc' = "lines"
  /\ texts' = Append(texts, <<>>)
  /\ image_start' = [mode |-> current_mode, blank |-> previous_line_was_empty, results |-> results]
  /\ UNCHANGED <<results, current_mode, current_text, previous_line_was_empty, carried>>

\* for line in lines: the next line of the current image is l.
Consume(l, branch) ==
  /\ pc = "lines"
  /\ NLines < MaxLines
  /\ BranchOf[l] = branch
  /\ texts' = [texts EXCEPT ![Len(texts)] = Append(@, l)]
  /\ pc' = pc
  /\ image_start' = image_start

\* A plausible slip: the empty line is skipped without setting the flag.
EmptyLine_no_flag(l) ==
  /\ Consume(l, "empty")
  /\ carried' = ""
  /\ UNCHANGED <<results, current_mode, current_text, previous_line_was_empty>>

\* if not line: previous_line_was_empty = True; continue
EmptyLine(l) ==
  /\ Consume(l, "empty")
  /\ previous_line_was_empty' = TRUE
  /\ carried' = ""
  /\ UNCHANGED <<results, current_mode, current_text>>

\* if len(line) < 2: continue
ShortLine(l) ==
  /\ Consume(l, "short")
  /\ UNCHANGED <<results, current_mode, current_text, previous_line_was_empty, carried>>

\* A plausible slip: only a line empty after stripping sets the flag.
CleanedEmptyLine_no_flag(l) ==
  /\ Consume(l, "cleaned_empty")
  /\ carried' = ""
  /\ UNCHANGED <<results, current_mode, current_text, previous_line_was_empty>>

\* the cleaned line is empty: previous_line_was_empty = True; continue
CleanedEmptyLine(l) ==
  /\ Consume(l, "cleaned_empty")
  /\ previous_line_was_empty' = TRUE
  /\ carried' = ""
  /\ UNCHANGED <<results, current_mode, current_text>>

\* A plausible slip: the blank-line test of the continuation is inverted.
ContinuesQuestion_inverted(mode, text, blank) == mode = "Questions" /\ text # "" /\ blank

\* A plausible slip: the continuation does not look at the blank-line flag.
ContinuesQuestion_ignores_blank(mode, text, blank) == mode = "Questions" /\ text # ""

\* if current_mode == "Questions" and current_text and not previous_line_was_empty
ContinuesQuestion(mode, text, blank) == mode = "Questions" /\ text # "" /\ ~blank

\* PRIORITY 1: if line.endswith('?')
QuestionEnd(l) ==
  LET line == CleanedOf[l]
      flush == current_mode = "Answers" /\ current_text # ""
      res1 == IF flush THEN save_current_item(results, current_mode, current_text) ELSE results
      text1 == IF flush THEN "" ELSE current_text
  IN /\ Consume(l, "question_end")
     /\ IF ContinuesQuestion(current_mode, text1, previous_line_was_empty)
        THEN /\ current_text' = text1 \o " " \o line
             /\ results' = res1
             /\ current_mode' = current_mode
        ELSE /\ results' = save_current_item(res1, current_mode, text1)
             /\ current_mode' = "Questions"
             /\ current_text' = line
     /\ previous_line_was_empty' = FALSE
     /\ carried' = ""

\* PRIORITY 2: if re.match(q_markers, line, re.IGNORECASE)
QuestionMarker(l) ==
  /\ Consume(l, "q_marker")
  /\ results' = save_current_item(results, current_mode, current_text)
  /\ current_mode' = "Questions"
  /\ current_text' = sub_q_markers(CleanedOf[l])
  /\ previous_line_was_empty' = FALSE
  /\ carried' = ""

\* PRIORITY 4: if re.match(a_markers, line, re.IGNORECASE)
AnswerMarker(l) ==
  /\ Consume(l, "a_marker")
  /\ results' = save_current_item(results, current_mode, current_text)
  /\ current_mode' = "Answers"
  /\ current_text' = sub_a_markers(CleanedOf[l])
  /\ previous_line_was_empty' = FALSE
  /\ carried' = ""

\* A plausible slip: the subdivision is appended without the joining space.
Subdivision_no_space(l) ==
  /\ Consume(l, "subdivision")
  /\ current_text' = current_text \o CleanedOf[l]
  /\ previous_line_was_empty' = FALSE
  /\ carried' = ""
  /\ UNCHANGED <<results, current_mode>>

\* if re.match(subdivision, line, re.IGNORECASE)
Subdivision(l) ==
  /\ Consume(l, "subdivision")
  /\ current_text' = IF current_text # "" THEN current_text \o " " \o CleanedOf[l] ELSE CleanedOf[l]
  /\ previous_line_was_empty' = FALSE
  /\ carried' = ""
  /\ UNCHANGED <<results, current_mode>>

\* A plausible slip: the transition does not ask for an open buffer.
IsBlankTransitionIn_ignores_buffer(blank, mode, text) == blank /\ mode = "Questions"

\* previous_line_was_empty and current_mode == "Questions" and current_text,
\* as a test of given values
IsBlankTransitionIn(blank, mode, text) == blank /\ mode = "Questions" /\ text # ""

\* A plausible slip: the blank-line test of the transition is inverted.
IsBlankTransition_inverted == ~previous_line_was_empty /\ current_mode = "Questions" /\ current_text # ""

\* A plausible slip: the blank-line cue ends an open item in any mode.
IsBlankTransition_any_mode == previous_line_was_empty /\ current_text # ""

\* if previous_line_was_empty and current_mode == "Questions" and current_text
IsBlankTransition == IsBlankTransitionIn(previous_line_was_empty, current_mode, current_text)

\* PRIORITY 3: empty line transition, switch from Q to A
BlankTransition(l) ==
  /\ Consume(l, "other")
  /\ IsBlankTransition
  /\ results' = save_current_item(results, current_mode, current_text)
  /\ current_mode' = "Answers"
  /\ current_text' = CleanedOf[l]
  /\ previous_line_was_empty' = FALSE
  /\ carried' = ""

\* A plausible slip: the unset fallback starts the buffer and forgets the mode.
Continuation_no_default(l) ==
  /\ Consume(l, "other")
  /\ ~IsBlankTransition
  /\ current_text' = IF current_mode # "None" /\ current_text # ""
                     THEN current_text \o " " \o CleanedOf[l] ELSE CleanedOf[l]
  /\ current_mode' = current_mode
  /\ previous_line_was_empty' = FALSE
  /\ carried' = ""
  /\ UNCHANGED results

\* REGULAR CONTINUATION LINE: if current_mode ... else default to question
Continuation(l) ==
  /\ Consume(l, "other")
  /\ ~IsBlankTransition
  /\ IF current_mode # "None"
     THEN /\ current_text' = IF current_text # "" THEN current_text \o " " \o CleanedOf[l] ELSE CleanedOf[l]
          /\ current_mode' = current_mode
     ELSE /\ current_mode' = "Questions"
          /\ current_text' = CleanedOf[l]
  /\ previous_line_was_empty' = FALSE
  /\ carried' = ""
  /\ UNCHANGED results

\* A plausible variant that the code does not have: every image starts
\* again without a mode.
EndImage_resets_mode ==
  /\ pc = "lines"
  /\ Len(texts[Len(texts)]) >= 1
  /\ results' = save_current_item(results, current_mode, current_text)
  /\ current_text' = ""
  /\ current_mode' = "None"
  /\ carried' = IF current_mode = "Questions" THEN current_text ELSE ""
  /\ pc' = "images"
  /\ UNCHANGED <<previous_line_was_empty, texts, image_start>>

\* The lines of the image are exhausted (text.split('\n') holds at least
\* one line): save_current_item(), then on to the next image.
EndImage ==
  /\ pc = "lines"
  /\ Len(texts[Len(texts)]) >= 1
  /\ results' = save_current_item(results, current_mode, current_text)
  /\ current_text' = ""
  /\ carried' = IF current_mode = "Questions" THEN current_text ELSE ""
  /\ pc' = "images"
  /\ UNCHANGED <<current_mode, previous_line_was_empty, texts, image_start>>

\* image_list is exhausted: return results
Return ==
  /\ pc = "images"
  /\ pc' = "done"
  /\ UNCHANGED <<results, current_mode, current_text, previous_line_was_empty, texts, carried, image_start>>

Next ==
  \/ BeginImage
  \/ \E l \in Lines :
       \/ EmptyLine(l)
       \/ ShortLine(l)
       \/ CleanedEmptyLine(l)
       \/ QuestionEnd(l)
       \/ QuestionMarker(l)
       \/ AnswerMarker(l)
       \/ Subdivision(l)
       \/ BlankTransition(l)
       \/ Continuation(l)
  \/ EndImage
  \/ Return

Spec == Init /\ [][Next]_vars

-----------------------------------------------------------------------------
(* Vocabulary of the properties.                                           *)

\* original_line: the line consumed last.
original_line == LET t == texts[Len(texts)] IN t[Len(t)]

\* A step of the loop over lines: one more line has been consumed.
LineStep == pc = "lines" /\ pc' = "lines" /\ texts' # texts

\* A step that ends an image: the lines loop is left and save_current_item runs.
ImageEndStep == pc = "lines" /\ pc' = "images"

IsPrefix(a, b) == Len(a) <= Len(b) /\ SubSeq(b, 1, Len(a)) = a
StartsWithStr(s, t) == Len(t) <= Len(s) /\ SubSeq(s, 1, Len(t)) = t
EndsWithStr(s, t) == Len(t) <= Len(s) /\ SubSeq(s, Len(s) - Len(t) + 1, Len(s)) = t

\* The input lines that reach rule evaluation (neither blank nor short).
RuleLines == {l \in Lines : Len(strip(l)) >= 2 /\ cleaned(l) # ""}
\* ... whose cleaned form ends with '?'
QuestionEndLines == {l \in RuleLines : endswith(cleaned(l), "?")}
\* ... whose cleaned form does not end with '?' and starts with a question marker
QuestionMarkerLines == {l \in RuleLines \ QuestionEndLines : q_markers(cleaned(l)) >= 0}
\* ... whose cleaned form matches none of rules 1-4
PlainLines ==
  {l \in RuleLines \ QuestionEndLines :
     /\ q_markers(cleaned(l)) < 0
     /\ a_markers(cleaned(l)) < 0
     /\ ~subdivision(cleaned(l))}
\* ... whose cleaned form does not end with '?' and starts with one of the
\* lettered-subpart forms a), b., (c), u), w)
SubpartLines ==
  {l \in RuleLines \ QuestionEndLines :
     \E m \in {"a)", "b.", "(c)", "u)", "w)"} : StartsWithStr(cleaned(l), m)}
\* The lines whose stripped length is exactly 1.
OneCharLines == {l \in Lines : Len(strip(l)) = 1}

-----------------------------------------------------------------------------
(* C1. Cross-image continuation: when an image ends with a non-empty open  *)
(* Questions buffer and the first non-discarded line of the next image is  *)
(* non-blank, does not end with '?' and matches no marker or subdivision   *)
(* pattern, that line is appended to the same buffer (one entry, not two). *)
C1_CrossImageContinuation ==
  [][ (LineStep /\ carried # "" /\ ~previous_line_was_empty /\ original_line' \in PlainLines)
        => current_text' = carried \o " " \o CleanedOf[original_line'] ]_vars

(* C2. Final flush: whenever the buffer is non-empty when the lines of an  *)
(* image (any image may be the last) are exhausted, its normalized text    *)
(* is added to the results exactly once: not lost, not duplicated.         *)
C2_FinalFlush ==
  [][ (ImageEndStep /\ current_text # "")
        => \/ results' = [results EXCEPT !.Questions = Append(@, normalize(current_text))]
           \/ results' = [results EXCEPT !.Answers = Append(@, normalize(current_text))] ]_vars

(* C3. Lines ending with '?' are always questions: such a line joins the   *)
(* Questions buffer with its marker unstripped, Answers gains at most the  *)
(* answer that was open before it, an open Questions buffer is only ever   *)
(* finalized into Questions, and the single line "A.) Is this correct?"    *)
(* yields Questions == ["A.) Is this correct?"] and Answers == [].         *)
C3_QuestionEndIsQuestion ==
  /\ [][ (LineStep /\ original_line' \in QuestionEndLines)
           => /\ current_mode' = "Questions"
              /\ EndsWithStr(current_text', cleaned(original_line'))
              /\ \/ results'.Answers = results.Answers
                 \/ /\ current_mode = "Answers"
                    /\ results'.Answers = Append(results.Answers, normalize(current_text)) ]_vars
  /\ [][ (current_mode = "Questions" /\ current_text # "" /\ ~IsPrefix(current_text, current_text'))
           => /\ results'.Questions = Append(results.Questions, normalize(current_text))
              /\ results'.Answers = results.Answers ]_vars
  /\ [][ (pc' = "done" /\ texts' = << <<"A.) Is this correct?">> >>)
           => results' = [Questions |-> <<"A.) Is this correct?">>, Answers |-> <<>>] ]_vars

C3_Witness ==
  /\ pc = "done"
  /\ texts = << <<"A.) Is this correct?">> >>
  /\ results.Questions = <<"A.) Is this correct?">>

(* C4. Subdivision rule: a cleaned line that does not end with '?' and     *)
(* starts with a lettered-subpart marker (a), b., (c), u), w)), processed  *)
(* while a non-empty buffer is open, is appended whole to that buffer,     *)
(* Mode is unchanged and nothing is finalized.                             *)
C4_SubdivisionAppends ==
  [][ (LineStep /\ original_line' \in SubpartLines /\ current_text # "")
        => /\ current_text' = current_text \o " " \o cleaned(original_line')
           /\ current_mode' = current_mode
           /\ results' = results ]_vars

(* C5. Blank-transition rule: with Mode Questions, a non-empty buffer and  *)
(* PreviousLineBlank true, a line matching none of rules 1-4 finalizes the *)
(* question into Questions, sets Mode to Answers, starts a new buffer      *)
(* equal to the line and clears PreviousLineBlank.                         *)
C5_BlankTransition ==
  [][ (/\ LineStep
       /\ original_line' \in PlainLines
       /\ current_mode = "Questions" /\ current_text # "" /\ previous_line_was_empty)
        => /\ results' = [results EXCEPT !.Questions = Append(@, normalize(current_text))]
           /\ current_mode' = "Answers"
           /\ current_text' = cleaned(original_line')
           /\ previous_line_was_empty' = FALSE ]_vars

C5_Witness ==
  /\ pc = "lines"
  /\ texts = << <<"b. part", "", "An operating system manages resources.">> >>
  /\ results.Questions = <<"part">>
  /\ current_mode = "Answers"
  /\ current_text = "An operating system manages resources."

(* C6. Marker stripping: the lines "Q.) Define OS", "", "An operating      *)
(* system manages resources." give Questions == ["Define OS"] and          *)
(* Answers == ["An operating system manages resources."]: the whole marker *)
(* prefix, also of the form 'Q.)', is removed.                             *)
C6_MarkerStripping ==
  (pc = "done" /\ texts = << <<"Q.) Define OS", "", "An operating system manages resources.">> >>)
    => results = [Questions |-> <<"Define OS">>,
                  Answers |-> <<"An operating system manages resources.">>]

(* C7. Multi-line continuation: with Mode Questions, a non-empty buffer    *)
(* and PreviousLineBlank false, a line ending with '?' is appended to the  *)
(* buffer after one space and nothing is finalized; so a question-marker   *)
(* line directly followed by a line ending with '?' gives one Questions    *)
(* entry holding both lines' text and no Answers entry.                    *)
C7_MultiLineContinuation ==
  /\ [][ (/\ LineStep
          /\ original_line' \in QuestionEndLines
          /\ current_mode = "Questions" /\ current_text # "" /\ ~previous_line_was_empty)
           => /\ current_text' = current_text \o " " \o cleaned(original_line')
              /\ current_mode' = "Questions"
              /\ results' = results ]_vars
  /\ [][ (/\ pc' = "done"
          /\ Len(texts') = 1 /\ Len(texts'[1]) = 2
          /\ texts'[1][1] \in QuestionMarkerLines
          /\ texts'[1][2] \in QuestionEndLines)
           => /\ results'.Answers = <<>>
              /\ results'.Questions =
                   << normalize(sub_q_markers(cleaned(texts'[1][1])) \o " " \o cleaned(texts'[1][2])) >> ]_vars

C7_Witness ==
  /\ pc = "done"
  /\ texts = << <<"b. part", "A.) Is this correct?">> >>
  /\ results = [Questions |-> <<"part A.) Is this correct?">>, Answers |-> <<>>]

(* C8. No entry of Questions or Answers is empty or whitespace-only (so    *)
(* finalizing an empty or whitespace-only buffer appends nothing).         *)
C8_NoBlankEntries ==
  /\ \A i \in 1..Len(results.Questions) : strip(results.Questions[i]) # ""
  /\ \A i \in 1..Len(results.Answers) : strip(results.Answers[i]) # ""

\* An empty buffer was finalized in Questions mode after an entry was stored.
C8_Witness ==
  /\ pc = "images"
  /\ Len(texts) = 2 /\ texts[2] = <<"Q.">>
  /\ current_mode = "Questions"
  /\ Len(results.Questions) = 1

(* C9. Short noise lines: a line whose stripped length is exactly 1 leaves *)
(* Mode, the buffer, PreviousLineBlank and both lists unchanged.           *)
C9_ShortLineDiscarded ==
  [][ (LineStep /\ original_line' \in OneCharLines)
        => UNCHANGED <<current_mode, current_text, previous_line_was_empty, results>> ]_vars

C9_Witness ==
  /\ pc = "lines"
  /\ Len(texts[Len(texts)]) >= 1
  /\ original_line = "-"
  /\ current_text # ""
  /\ previous_line_was_empty

(* C10. The output lists are append-only: every step leaves the previous   *)
(* value of Questions and of Answers as a prefix of the new one.           *)
C10_AppendOnly ==
  [][ /\ IsPrefix(results.Questions, results'.Questions)
      /\ IsPrefix(results.Answers, results'.Answers) ]_vars

C10_Witness ==
  /\ pc = "done"
  /\ Len(results.Questions) >= 1
  /\ Len(results.Answers) >= 1

-----------------------------------------------------------------------------
\* The lines that reach the subdivision rule: no trailing '?', no question
\* marker, no answer marker, and a match of the subdivision pattern.
SubdivisionRuleLines ==
  {l \in RuleLines \ QuestionEndLines :
     /\ q_markers(cleaned(l)) < 0
     /\ a_markers(cleaned(l)) < 0
     /\ subdivision(cleaned(l))}

\* The subdivision lines among the first n lines of an image, cleaned and
\* joined by single spaces.
RECURSIVE JoinSubdivisions(_, _)
JoinSubdivisions(lines, n) ==
  IF n = 0 THEN ""
  ELSE LET before == JoinSubdivisions(lines, n - 1)
       IN IF lines[n] \notin SubdivisionRuleLines THEN before
          ELSE IF before = "" THEN cleaned(lines[n])
          ELSE before \o " " \o cleaned(lines[n])

NoResults == [Questions |-> <<>>, Answers |-> <<>>]

(* C11 as stated. Mode is None if and only if the buffer is empty.         *)
C11_ModeNoneIffEmpty == (current_mode = "None") <=> (current_text = "")

(* C11, amended. While Mode is None nothing has been finalized and the     *)
(* buffer holds exactly the subdivision lines consumed so far in the       *)
(* current image (none: it is empty). The converse does not hold:          *)
(* finalization empties the buffer and keeps Mode.                         *)
C11_ModeNoneBuffer ==
  current_mode = "None" =>
    /\ results = NoResults
    /\ current_text = IF pc = "lines"
                      THEN JoinSubdivisions(texts[Len(texts)], Len(texts[Len(texts)]))
                      ELSE ""

C11_Witness ==
  /\ pc = "lines"
  /\ current_mode = "None"
  /\ texts = << <<"(c)  see *fig", "", "(c)  see *fig">> >>
  /\ current_text = "(c)  see fig (c)  see fig"

-----------------------------------------------------------------------------
\* The image whose lines are exhausted held the empty text: "".split('\n')
\* is the one line "".
EmptyTextImageEnds == ImageEndStep /\ texts[Len(texts)] = <<"">>

(* C12 as stated. An image whose extracted text is the empty string leaves *)
(* Mode, PreviousLineBlank and both output lists exactly as they were      *)
(* before that image.                                                      *)
C12_EmptyTextNoChange ==
  [][ EmptyTextImageEnds
        => /\ current_mode' = image_start.mode
           /\ previous_line_was_empty' = image_start.blank
           /\ results' = image_start.results ]_vars

(* C12, amended. An image whose extracted text is the empty string leaves  *)
(* Mode and both output lists exactly as they were before that image and   *)
(* the buffer empty, and sets PreviousLineBlank to true (the empty text is *)
(* one blank line); the loop goes on to the remaining images.              *)
C12_EmptyTextSetsBlankOnly ==
  [][ EmptyTextImageEnds
        => /\ current_mode' = image_start.mode
           /\ results' = image_start.results
           /\ current_text' = ""
           /\ previous_line_was_empty' = TRUE
           /\ pc' = "images" ]_vars

C12_Witness ==
  /\ pc = "images"
  /\ Len(texts) = 2
  /\ texts[2] = <<"">>
  /\ results.Questions = <<") Define OS">>
  /\ current_mode = "Questions"
  /\ ~image_start.blank
  /\ previous_line_was_empty

-----------------------------------------------------------------------------
\* What has been consumed so far: lines, images begun, images ended, the return.
Progress ==
  NLines + 2 * Len(texts) + (IF pc = "images" THEN 1 ELSE 0) + (IF pc = "done" THEN 2 ELSE 0)

\* The lines treated as blank: empty when stripped, or empty when cleaned.
BlankLines == {l \in Lines : strip(l) = "" \/ (Len(strip(l)) >= 2 /\ cleaned(l) = "")}

\* What a new buffer started by the line l may hold: the cleaned line, or
\* the cleaned line without its marker.
NewBufferOf ==
  [l \in Lines |->
     {cleaned(l)}
       \cup (IF q_markers(cleaned(l)) >= 0 THEN {sub_q_markers(cleaned(l))} ELSE {})
       \cup (IF a_markers(cleaned(l)) >= 0 THEN {sub_a_markers(cleaned(l))} ELSE {})]

\* The four outcomes of consuming the line l.
ExtendsBuffer(l) ==
  /\ l \in RuleLines
  /\ current_text # ""
  /\ current_text' = current_text \o " " \o CleanedOf[l]
  /\ current_mode' = current_mode
  /\ results' = results
  /\ previous_line_was_empty' = FALSE

StartsBuffer(l) ==
  /\ l \in RuleLines
  /\ current_text' \in NewBufferOf[l]
  /\ \/ results' = results
     \/ \E m \in {"Questions", "Answers"} :
          results' = [results EXCEPT ![m] = Append(@, normalize(current_text))]
  /\ previous_line_was_empty' = FALSE

TreatedAsBlank(l) ==
  /\ l \in BlankLines
  /\ previous_line_was_empty' = TRUE
  /\ UNCHANGED <<current_mode, current_text, results>>

DiscardedAsShort(l) ==
  /\ l \in OneCharLines
  /\ UNCHANGED <<current_mode, current_text, results, previous_line_was_empty>>

Count(b) == IF b THEN 1 ELSE 0

(* C13. Classification terminates with a ResultSet and never gets stuck   *)
(* (every step consumes input; until the return either the return, the    *)
(* end of the image or a further line is possible),                        *)
(* and every line is consumed exactly once with exactly one outcome: it    *)
(* extends the buffer, starts a new buffer, is treated as blank, or is     *)
(* discarded as too short.                                                 *)
C13_TerminatesOneOutcomePerLine ==
  /\ [][ LineStep
           => /\ NLines' = NLines + 1
              /\ Count(ExtendsBuffer(original_line')) + Count(StartsBuffer(original_line'))
                   + Count(TreatedAsBlank(original_line')) + Count(DiscardedAsShort(original_line'))
                 = 1 ]_vars
  /\ [][ Progress' > Progress ]_vars
  /\ [][ pc' = "done" => DOMAIN results' = {"Questions", "Answers"} ]_vars
  /\ [](\/ pc = "done"
        \/ ENABLED Return
        \/ pc = "lines" /\ Len(texts[Len(texts)]) >= 1
        \/ ENABLED EmptyLine(""))

\* A run that consumed one line of each outcome and returned.
C13_Witness ==
  /\ pc = "done"
  /\ \E i \in 1..Len(texts) :
       texts[i] = <<"-", "##", "(c)  see *fig">> \/ texts[i] = <<"b. part", "-", "(c)  see *fig">>

-----------------------------------------------------------------------------
(* C14. Strong signals override the blank-line cue: with Mode Questions, a *)
(* non-empty buffer and PreviousLineBlank true, a line that ends with '?'  *)
(* or starts with a question marker finalizes the open question as its own *)
(* Questions entry and starts a new Questions item, and a line that        *)
(* reaches the subdivision rule is appended to the open question; in none  *)
(* of these cases does Mode become Answers.                                *)
C14_StrongSignalsOverrideBlank ==
  [][ (/\ LineStep
       /\ current_mode = "Questions" /\ current_text # "" /\ previous_line_was_empty)
        => /\ original_line' \in QuestionEndLines
                => /\ results' = [results EXCEPT !.Questions = Append(@, normalize(current_text))]
                   /\ current_text' = CleanedOf[original_line']
                   /\ current_mode' = "Questions"
           /\ original_line' \in QuestionMarkerLines
                => /\ results' = [results EXCEPT !.Questions = Append(@, normalize(current_text))]
                   /\ current_text' = sub_q_markers(CleanedOf[original_line'])
                   /\ current_mode' = "Questions"
           /\ original_line' \in SubdivisionRuleLines
                => /\ results' = results
                   /\ current_text' = current_text \o " " \o CleanedOf[original_line']
                   /\ current_mode' = "Questions" ]_vars

C14_Witness ==
  /\ pc = "lines"
  /\ texts = << <<"b. part", "", "A.) Is this correct?">> >>
  /\ results = [Questions |-> <<"part">>, Answers |-> <<>>]
  /\ current_mode = "Questions"
  /\ current_text = "A.) Is this correct?"

-----------------------------------------------------------------------------
(* C15. A subdivision line that arrives while Mode is None starts (or      *)
(* extends) a buffer without setting Mode, and that buffer is never        *)
(* stored: while Mode is None it only grows, and the step that ends it     *)
(* (a line that starts a new item, or the end of the image) replaces it    *)
(* and leaves both output lists unchanged.                                 *)
C15_ModelessSubdivisionDropped ==
  /\ [][ (LineStep /\ current_mode = "None" /\ original_line' \in SubdivisionRuleLines)
           => /\ current_mode' = "None"
              /\ current_text' = IF current_text = "" THEN CleanedOf[original_line']
                                 ELSE current_text \o " " \o CleanedOf[original_line']
              /\ results' = results ]_vars
  /\ [][ (current_mode = "None" /\ current_text # "")
           => /\ results' = results
              /\ \/ current_mode' = "None" /\ IsPrefix(current_text, current_text')
                 \/ ~LineStep /\ current_text' = ""
                 \/ LineStep /\ current_text' \in NewBufferOf[original_line'] ]_vars

\* The subdivision text was dropped when the next line started a question.
C15_Witness ==
  /\ pc = "done"
  /\ texts = << <<"(c)  see *fig", "An operating system manages resources.">> >>
  /\ results = [Questions |-> <<"An operating system manages resources.">>, Answers |-> <<>>]

-----------------------------------------------------------------------------
\* The lines consumed so far, over all images, in order.
RECURSIVE ConsumedLines(_)
ConsumedLines(n) == IF n = 0 THEN <<>> ELSE ConsumedLines(n - 1) \o texts[n]

\* Whether the last line of s that is not a one-character line is blank.
RECURSIVE BlankSinceLastRuleLine(_, _)
BlankSinceLastRuleLine(s, n) ==
  IF n = 0 THEN FALSE
  ELSE IF s[n] \in OneCharLines THEN BlankSinceLastRuleLine(s, n - 1)
  ELSE s[n] \in BlankLines

(* C16. PreviousLineBlank is true exactly when at least one blank line     *)
(* (empty after stripping, or empty after cleaning) has been consumed      *)
(* since the most recent line that reached rule evaluation, or since the   *)
(* start if there is none; one-character lines never change it, and the    *)
(* flag is carried unchanged across image boundaries.                      *)
C16_BlankFlagMeaning ==
  /\ [](previous_line_was_empty
          <=> BlankSinceLastRuleLine(ConsumedLines(Len(texts)), NLines))
  /\ [][ (LineStep /\ original_line' \in OneCharLines)
           => previous_line_was_empty' = previous_line_was_empty ]_vars
  /\ [][ (LineStep /\ original_line' \in RuleLines) => ~previous_line_was_empty' ]_vars
  /\ [][ ~LineStep => previous_line_was_empty' = previous_line_was_empty ]_vars

\* A line emptied by cleaning set the flag, and neither the image boundary
\* nor the one-character line after it changed it.
C16_Witness ==
  /\ pc = "lines"
  /\ texts = << <<"Q.) Define OS", "##">>, <<"-">> >>
  /\ previous_line_was_empty

-----------------------------------------------------------------------------
(* C17. Order preservation: an entry is only ever added after the last     *)
(* entry of its list, it is the item that was open, and a step that        *)
(* starts a new item while one is open in a mode first finalizes the open  *)
(* one; so each list holds its items in the order their first lines came.  *)
C17_OrderPreserved ==
  /\ [][ results' # results
           => /\ current_mode # "None"
              /\ results' = [results EXCEPT ![current_mode] = Append(@, normalize(current_text))] ]_vars
  /\ [][ (/\ current_mode # "None"
          /\ current_text # ""
          /\ current_text' # ""
          /\ ~IsPrefix(current_text, current_text')
          /\ normalize(current_text) # "")
           => /\ LineStep
              /\ current_text' \in NewBufferOf[original_line']
              /\ results'[current_mode] = Append(results[current_mode], normalize(current_text)) ]_vars

\* Two questions and then an answer, stored in the order they were read.
C17_Witness ==
  /\ pc = "done"
  /\ texts = << <<"Q.) Define OS", "b. part", "Ans: y">> >>
  /\ results = [Questions |-> <<") Define OS", "part">>, Answers |-> <<"y">>]

-----------------------------------------------------------------------------
(* C18. The blank-line hand-off is one-directional: in Mode Answers a line *)
(* matching none of rules 1-4 is appended to the open answer buffer (or    *)
(* starts it if the buffer is empty) whether or not blank lines preceded   *)
(* it, and Mode leaves Answers only for Questions, on a line that ends     *)
(* with '?' or starts with a question marker.                              *)
C18_AnswersKeepPlainLines ==
  /\ [][ (LineStep /\ current_mode = "Answers" /\ original_line' \in PlainLines)
           => /\ current_mode' = "Answers"
              /\ results' = results
              /\ current_text' = IF current_text = "" THEN CleanedOf[original_line']
                                 ELSE current_text \o " " \o CleanedOf[original_line'] ]_vars
  /\ [][ (current_mode = "Answers" /\ current_mode' # "Answers")
           => /\ LineStep
              /\ original_line' \in QuestionEndLines \cup QuestionMarkerLines
              /\ current_mode' = "Questions" ]_vars

\* A plain line after a blank line was appended to the open answer.
C18_Witness ==
  /\ pc = "lines"
  /\ texts = << <<"Ans: y", "", "An operating system manages resources.">> >>
  /\ previous_line_was_empty = FALSE
  /\ current_mode = "Answers"
  /\ current_text = "y An operating system manages resources."
  /\ results = NoResults

-----------------------------------------------------------------------------
(* C19. Once Mode is Questions or Answers it never returns to None: no     *)
(* line, image boundary or return resets it.                               *)
C19_ModeNeverReset == [][ current_mode # "None" => current_mode' # "None" ]_vars

\* The mode set in the first image is still set after a second, empty-text
\* image and the return.
C19_Witness ==
  /\ pc = "done"
  /\ texts = << <<"Ans: y">>, <<"">> >>
  /\ current_mode = "Answers"

-----------------------------------------------------------------------------
(* separate_qa_with_regex as a function of the extracted texts: the same   *)
(* loop, folded over a given list of images (each the list of its lines).  *)
(* A classifier state st holds results, current_mode, current_text and     *)
(* previous_line_was_empty.                                                *)

\* The body of the lines loop for one line l.
ClassifyLine(st, l) ==
  LET line  == CleanedOf[l]
      mode  == st.current_mode
      text  == st.current_text
      blank == st.previous_line_was_empty
      res   == st.results
      Item(r, m, t) == [results |-> r, current_mode |-> m, current_text |-> t,
                        previous_line_was_empty |-> FALSE]
  IN CASE BranchOf[l] \in {"empty", "cleaned_empty"} ->
            [st EXCEPT !.previous_line_was_empty = TRUE]
       [] BranchOf[l] = "short" -> st
       [] BranchOf[l] = "question_end" ->
            LET flush == mode = "Answers" /\ text # ""
                res1  == IF flush THEN save_current_item(res, mode, text) ELSE res
                text1 == IF flush THEN "" ELSE text
            IN IF ContinuesQuestion(mode, text1, blank)
               THEN Item(res1, mode, text1 \o " " \o line)
               ELSE Item(save_current_item(res1, mode, text1), "Questions", line)
       [] BranchOf[l] = "q_marker" ->
            Item(save_current_item(res, mode, text), "Questions", sub_q_markers(line))
       [] BranchOf[l] = "a_marker" ->
            Item(save_current_item(res, mode, text), "Answers", sub_a_markers(line))
       [] BranchOf[l] = "subdivision" ->
            Item(res, mode, IF text # "" THEN text \o " " \o line ELSE line)
       [] OTHER ->
            IF IsBlankTransitionIn(blank, mode, text)
            THEN Item(save_current_item(res, mode, text), "Answers", line)
            ELSE IF mode # "None"
                 THEN Item(res, mode, IF text # "" THEN text \o " " \o line ELSE line)
                 ELSE Item(res, "Questions", line)

\* for line in lines: the first n lines of an image
RECURSIVE ClassifyLines(_, _, _)
ClassifyLines(st, lines, n) ==
  IF n = 0 THEN st ELSE ClassifyLine(ClassifyLines(st, lines, n - 1), lines[n])

\* One pass of the image loop: the lines, then save_current_item().
ClassifyImage(st, lines) ==
  LET s == ClassifyLines(st, lines, Len(lines))
  IN [s EXCEPT !.results = save_current_item(s.results, s.current_mode, s.current_text),
               !.current_text = ""]

\* for image_path in image_paths: the first n images
RECURSIVE ClassifyImages(_, _)
ClassifyImages(images, n) ==
  IF n = 0
  THEN [results |-> [Questions |-> <<>>, Answers |-> <<>>], current_mode |-> "None",
        current_text |-> "", previous_line_was_empty |-> FALSE]
  ELSE ClassifyImage(ClassifyImages(images, n - 1), images[n])

\* The returned results for the given images.
separate_qa_with_regex(images) == ClassifyImages(images, Len(images)).results

\* An image whose extracted text is the empty string: ''.split('\n') is [''].
IsEmptyText(lines) == lines = <<"">>
WithoutEmptyText(images) == SelectSeq(images, LAMBDA lines : ~IsEmptyText(lines))

(* C20. An image whose extracted text is empty is observationally          *)
(* irrelevant: the returned Questions and Answers are those returned for   *)
(* the same image list with every empty-text image removed, wherever the   *)
(* empty-text images stand in the list.                                    *)
C20_EmptyTextIrrelevant ==
  pc = "done" =>
    /\ results = separate_qa_with_regex(texts)
    /\ (\E i \in 1..Len(texts) : IsEmptyText(texts[i]))
         => results = separate_qa_with_regex(WithoutEmptyText(texts))

\* An empty-text image between a question and a plain line: the plain line
\* is a question with or without it.
C20_Witness ==
  /\ pc = "done"
  /\ texts = << <<"Q.) Define OS">>, <<"">>, <<"An operating system manages resources.">> >>
  /\ results = [Questions |-> <<") Define OS", "An operating system manages resources.">>,
                Answers |-> <<>>]

=============================================================================
